---- MODULE Spec2Model ----
(***************************************************************************)
(* Model of hyper's header parsing utilities (src/header/parsing.rs):      *)
(*   from_one_raw_str, from_comma_delimited, from_one_comma_delimited,     *)
(*   fmt_comma_delimited and tm_from_str.                                  *)
(*                                                                         *)
(* Bytes are integers 0..255, text is a sequence of Unicode code points,   *)
(* the generic target type T is instantiated with u8 (FromStr / Display of *)
(* an 8-bit unsigned integer), and a date string is a sequence of          *)
(* one-character strings.                                                  *)
(***************************************************************************)
EXTENDS Integers, Sequences, FiniteSets, TLC

VARIABLES
    \* --- the decoders (from_one_raw_str, from_comma_delimited, from_one_comma_delimited)
    raw,        \* the raw header value: a sequence of byte sequences
    call,       \* the decoder that was called, "none" before the call
    arg,        \* the byte slice handed to from_one_comma_delimited
    ret,        \* the Option the call returned
    \* --- fmt_comma_delimited
    origin,     \* where parts came from: "none", "given" or "decoded"
    parts,      \* the items to format
    fpc,        \* position in fmt_comma_delimited
    last,       \* the local `last`
    idx,        \* the loop index i of enumerate()
    sink,       \* the output sink: text accepted, writes attempted, failed flag
    fres,       \* the fmt::Result returned, "none" until the call returns
    redec,      \* the result of decoding the formatted text again
    \* --- tm_from_str
    s,          \* the date string
    tpc,        \* position in tm_from_str
    cur,        \* the Result flowing through the or_else chain
    attempts,   \* the grammars strptime was called with, in order
    tres        \* the Option returned

decVars == <<raw, call, arg, ret>>
fmtVars == <<origin, parts, fpc, last, idx, sink, fres, redec>>
tmVars  == <<s, tpc, cur, attempts, tres>>
vars    == <<raw, call, arg, ret, origin, parts, fpc, last, idx, sink, fres, redec,
             s, tpc, cur, attempts, tres>>

-----------------------------------------------------------------------------
(* Option and Result *)

None    == [tag |-> "None"]
Some(v) == [tag |-> "Some", val |-> v]
Err     == [tag |-> "Err"]
Ok(v)   == [tag |-> "Ok", val |-> v]

\* Result::ok
ok(r) == IF r.tag = "Ok" THEN Some(r.val) ELSE None

-----------------------------------------------------------------------------
(* Bounds *)

\* longest byte sequence enumerated exhaustively as a single raw element
MaxLen == 4
\* most elements in a raw header value
MaxRaw == 2
\* longest item sequence handed to fmt_comma_delimited by a caller
MaxParts == 3

\* the bytes the exhaustive inputs are built from:
\* ',' ' ' '1' '9' 'x', and 0xC2 0xA0 (together U+00A0, alone invalid UTF-8)
Bytes == {44, 32, 49, 57, 120, 194, 160}

RECURSIVE SeqsUpTo(_, _)
SeqsUpTo(S, n) ==
    IF n = 0 THEN {<<>>}
    ELSE LET shorter == SeqsUpTo(S, n - 1)
         IN  shorter \cup {Append(q, x) : q \in {r \in shorter : Len(r) = n - 1}, x \in S}

\* longer inputs: "1, x, 3", " 1 ,256,255", "1<U+3000>,9", "01,1", "x", "9,,9,9"
ByteSamples ==
    { <<49, 44, 32, 120, 44, 32, 51>>,
      <<32, 49, 32, 44, 50, 53, 54, 44, 50, 53, 53>>,
      <<49, 227, 128, 128, 44, 57>>,
      <<48, 49, 44, 49>>,
      <<120>>,
      <<57, 44, 44, 57, 44, 57>> }

ByteInputs == SeqsUpTo(Bytes, MaxLen) \cup ByteSamples

\* elements of raw header values with zero or several occurrences
RawSamples == { <<>>, <<49>>, <<49, 44, 57>>, <<194>> }

RawInputs ==
    {<<b>> : b \in ByteInputs} \cup SeqsUpTo(RawSamples, MaxRaw)

-----------------------------------------------------------------------------
(* std::str::from_utf8 *)

IsCont(b) == b >= 128 /\ b <= 191

RECURSIVE utf8_run(_, _, _)
utf8_run(b, i, acc) ==
    IF i > Len(b) THEN Ok(acc)
    ELSE LET x == b[i]
             c(k) == IF i + k <= Len(b) THEN b[i + k] ELSE 0
         IN  IF x < 128 THEN utf8_run(b, i + 1, Append(acc, x))
             ELSE IF x >= 194 /\ x <= 223 THEN
                 IF IsCont(c(1))
                 THEN utf8_run(b, i + 2, Append(acc, (x - 192) * 64 + (c(1) - 128)))
                 ELSE Err
             ELSE IF x >= 224 /\ x <= 239 THEN
                 IF /\ IsCont(c(1)) /\ IsCont(c(2))
                    /\ (x = 224 => c(1) >= 160)
                    /\ (x = 237 => c(1) <= 159)
                 THEN utf8_run(b, i + 3,
                        Append(acc, (x - 224) * 4096 + (c(1) - 128) * 64 + (c(2) - 128)))
                 ELSE Err
             ELSE IF x >= 240 /\ x <= 244 THEN
                 IF /\ IsCont(c(1)) /\ IsCont(c(2)) /\ IsCont(c(3))
                    /\ (x = 240 => c(1) >= 144)
                    /\ (x = 244 => c(1) <= 143)
                 THEN utf8_run(b, i + 4,
                        Append(acc, (x - 240) * 262144 + (c(1) - 128) * 4096
                                    + (c(2) - 128) * 64 + (c(3) - 128)))
                 ELSE Err
             ELSE Err

from_utf8(b) == utf8_run(b, 1, <<>>)

-----------------------------------------------------------------------------
(* str::split(','), str::trim, and FromStr / Display for u8 *)

\* char::is_whitespace (the Unicode White_Space property)
is_whitespace(c) ==
    \/ c \in {9, 10, 11, 12, 13, 32, 133, 160, 5760, 8232, 8233, 8239, 8287, 12288}
    \/ (c >= 8192 /\ c <= 8202)

RECURSIVE split(_, _)
split(t, sep) ==
    IF \A k \in 1..Len(t) : t[k] # sep THEN <<t>>
    ELSE LET k == CHOOSE j \in 1..Len(t) : t[j] = sep /\ \A m \in 1..(j - 1) : t[m] # sep
         IN  <<SubSeq(t, 1, k - 1)>> \o split(SubSeq(t, k + 1, Len(t)), sep)

RECURSIVE trim_left(_)
trim_left(t) ==
    IF t # <<>> /\ is_whitespace(Head(t)) THEN trim_left(Tail(t)) ELSE t

RECURSIVE trim_right(_)
trim_right(t) ==
    IF t # <<>> /\ is_whitespace(t[Len(t)]) THEN trim_right(SubSeq(t, 1, Len(t) - 1)) ELSE t

trim(t) == trim_right(trim_left(t))

\* the largest u8
TMax == 2^8 - 1

RECURSIVE parse_digits(_, _)
parse_digits(t, acc) ==
    IF t = <<>> THEN Ok(acc)
    ELSE IF Head(t) < 48 \/ Head(t) > 57 THEN Err
    ELSE LET v == acc * 10 + (Head(t) - 48)
         IN  IF v > TMax THEN Err ELSE parse_digits(Tail(t), v)

\* <u8 as FromStr>::from_str
from_str(t) == IF t = <<>> THEN Err ELSE parse_digits(t, 0)

\* <u8 as Display>::fmt: the decimal digits, no sign, no leading zero
RECURSIVE display(_)
display(v) ==
    IF v < 10 THEN <<48 + v>> ELSE Append(display(v \div 10), 48 + (v % 10))

-----------------------------------------------------------------------------
(* The decoders *)

\* from_one_raw_str with the length test weakened to "not empty": a repeated
\* header is decoded from its first occurrence
from_one_raw_str_first(r) ==
    IF Len(r) = 0 THEN None
    ELSE LET u == from_utf8(r[1])
         IN  IF u.tag = "Ok" THEN ok(from_str(u.val)) ELSE None

from_one_raw_str(r) ==
    IF Len(r) # 1 THEN None
    ELSE LET u == from_utf8(r[1])
         IN  IF u.tag = "Ok" THEN ok(from_str(u.val)) ELSE None

\* the pipeline without .map(|x| x.trim())
RECURSIVE parse_collect_untrimmed(_)
parse_collect_untrimmed(pieces) ==
    IF pieces = <<>> THEN <<>>
    ELSE LET p == ok(from_str(Head(pieces)))
             rest == parse_collect_untrimmed(Tail(pieces))
         IN  IF p.tag = "Some" THEN <<p.val>> \o rest ELSE rest

\* .map(|x| x.trim()).filter_map(|x| x.parse().ok()).collect()
RECURSIVE trim_parse_collect(_)
trim_parse_collect(pieces) ==
    IF pieces = <<>> THEN <<>>
    ELSE LET p == ok(from_str(trim(Head(pieces))))
             rest == trim_parse_collect(Tail(pieces))
         IN  IF p.tag = "Some" THEN <<p.val>> \o rest ELSE rest

\* from_one_comma_delimited collecting into an Option: one item that fails to
\* parse fails the whole call
from_one_comma_delimited_strict(b) ==
    LET u == from_utf8(b)
    IN  IF u.tag = "Ok"
           /\ \A k \in 1..Len(split(u.val, 44)) : from_str(trim(split(u.val, 44)[k])).tag = "Ok"
        THEN Some(trim_parse_collect(split(u.val, 44)))
        ELSE None

from_one_comma_delimited(b) ==
    LET u == from_utf8(b)
    IN  IF u.tag = "Ok" THEN Some(trim_parse_collect(split(u.val, 44))) ELSE None

\* from_comma_delimited reading the first occurrence of a repeated header
from_comma_delimited_first(r) ==
    IF Len(r) = 0 THEN None ELSE from_one_comma_delimited(r[1])

from_comma_delimited(r) ==
    IF Len(r) # 1 THEN None ELSE from_one_comma_delimited(r[1])

-----------------------------------------------------------------------------
(* Idle values of the three groups of variables *)

DecIdle ==
    /\ raw = <<>> /\ call = "none" /\ arg = <<>> /\ ret = None

FmtIdle ==
    /\ origin = "none" /\ parts = <<>> /\ fpc = "idle" /\ last = 0 /\ idx = 0
    /\ sink = [buf |-> <<>>, writes |-> 0, failed |-> FALSE]
    /\ fres = "none" /\ redec = None

TmIdle ==
    /\ s = <<>> /\ tpc = "idle" /\ cur = Err /\ attempts = <<>> /\ tres = None

-----------------------------------------------------------------------------
(* Specification of the decoders: a raw header value arrives, one decoder  *)
(* is called on it.                                                        *)

Init ==
    /\ raw \in RawInputs
    /\ call = "none" /\ arg = <<>> /\ ret = None
    /\ FmtIdle /\ TmIdle

Call_from_one_raw_str ==
    /\ call = "none"
    /\ call' = "from_one_raw_str"
    /\ ret' = from_one_raw_str(raw)
    /\ UNCHANGED <<raw, arg>>
    /\ UNCHANGED <<fmtVars, tmVars>>

Call_from_comma_delimited ==
    /\ call = "none"
    /\ call' = "from_comma_delimited"
    /\ ret' = from_comma_delimited(raw)
    /\ UNCHANGED <<raw, arg>>
    /\ UNCHANGED <<fmtVars, tmVars>>

Call_from_one_comma_delimited ==
    /\ call = "none"
    /\ \E k \in 1..Len(raw) :
        /\ arg' = raw[k]
        /\ ret' = from_one_comma_delimited(raw[k])
    /\ call' = "from_one_comma_delimited"
    /\ UNCHANGED raw
    /\ UNCHANGED <<fmtVars, tmVars>>

Next ==
    \/ Call_from_one_raw_str
    \/ Call_from_comma_delimited
    \/ Call_from_one_comma_delimited

Spec == Init /\ [][Next]_vars

-----------------------------------------------------------------------------
(* Reference notions the decoder claims are stated with.  They describe    *)
(* the expected result by position, not by the iterator pipeline.          *)

IsDigit(c) == c >= 48 /\ c <= 57

RECURSIVE Pow10(_)
Pow10(n) == IF n = 0 THEN 1 ELSE 10 * Pow10(n - 1)

\* leading zeros dropped, so that the positional value below stays small
RECURSIVE StripZeros(_)
StripZeros(t) == IF Len(t) > 1 /\ Head(t) = 48 THEN StripZeros(Tail(t)) ELSE t

RECURSIVE SumDigits(_, _)
SumDigits(t, k) ==
    IF k > Len(t) THEN 0 ELSE (t[k] - 48) * Pow10(Len(t) - k) + SumDigits(t, k + 1)

\* the decimal value of a digit string
DecimalValue(t) == SumDigits(StripZeros(t), 1)

\* t is the text of some u8
IsU8Text(t) ==
    /\ t # <<>>
    /\ \A k \in 1..Len(t) : IsDigit(t[k])
    /\ Len(StripZeros(t)) <= 3
    /\ DecimalValue(t) <= 255

CommaPos(t) == {k \in 1..Len(t) : t[k] = 44}
NPieces(t) == Cardinality(CommaPos(t)) + 1

\* the position of the k-th comma; 0 and Len(t)+1 stand for the two ends
Boundary(t, k) ==
    IF k = 0 THEN 0
    ELSE IF k = NPieces(t) THEN Len(t) + 1
    ELSE CHOOSE p \in CommaPos(t) : Cardinality({q \in CommaPos(t) : q < p}) = k - 1

Piece(t, k) == SubSeq(t, Boundary(t, k - 1) + 1, Boundary(t, k) - 1)

\* p without its leading and trailing whitespace
Trimmed(p) ==
    LET inner == {j \in 1..Len(p) : ~is_whitespace(p[j])}
    IN  IF inner = {} THEN <<>>
        ELSE SubSeq(p, CHOOSE a \in inner : \A j \in inner : a <= j,
                       CHOOSE z \in inner : \A j \in inner : z >= j)

\* the pieces of t that parse, by their index
Kept(t) == {k \in 1..NPieces(t) : IsU8Text(Trimmed(Piece(t, k)))}

\* the values of the pieces that parse, left to right
ExpectedItems(t) ==
    [j \in 1..Cardinality(Kept(t)) |->
        LET k == CHOOSE m \in Kept(t) : Cardinality({q \in Kept(t) : q < m}) = j - 1
        IN  DecimalValue(Trimmed(Piece(t, k)))]

-----------------------------------------------------------------------------
(* Claims about the decoders, checked under Spec *)

\* C1: from_one_raw_str returns a value iff the raw sequence has exactly one
\* element, that element is valid UTF-8 and its text parses as T; with zero or
\* several elements it returns None; the value is T's parse of the element's text.
C1_DecodeSingle ==
    call = "from_one_raw_str" =>
        /\ Len(raw) # 1 => ret = None
        /\ Len(raw) = 1 =>
            LET u == from_utf8(raw[1])
            IN  /\ ret # None <=> (u.tag = "Ok" /\ IsU8Text(u.val))
                /\ ret # None => ret = Some(DecimalValue(u.val))

C1_Witness ==
    /\ call = "from_one_raw_str"
    /\ raw = << <<49, 57>> >>
    /\ ret = Some(19)

\* C2: for valid UTF-8 input, from_one_comma_delimited returns exactly the parsed
\* values of the comma-separated, whitespace-trimmed substrings that parse, left to
\* right, duplicates kept; its length is the number of substrings that parse.
C2_CommaListItems ==
    (call = "from_one_comma_delimited" /\ from_utf8(arg).tag = "Ok") =>
        LET t == from_utf8(arg).val
        IN  /\ ret = Some(ExpectedItems(t))
            /\ Len(ret.val) = Cardinality(Kept(t))

\* "1, x, 3" gives [1, 3]
C2_Witness ==
    /\ call = "from_one_comma_delimited"
    /\ arg = <<49, 44, 32, 120, 44, 32, 51>>
    /\ ret = Some(<<1, 3>>)

\* C3: from_one_comma_delimited returns None iff the bytes are not valid UTF-8;
\* items that fail to parse never make the call fail.
C3_FailsOnlyOnUtf8 ==
    call = "from_one_comma_delimited" =>
        (ret = None <=> from_utf8(arg) = Err)

\* "x": valid UTF-8, no item parses, the call still returns a (empty) sequence
C3_Witness ==
    /\ call = "from_one_comma_delimited"
    /\ arg = <<120>>
    /\ ret = Some(<<>>)

\* C4: from_comma_delimited returns None for zero or several elements, and for
\* exactly one element the result of from_one_comma_delimited on its bytes.
C4_CommaListFraming ==
    call = "from_comma_delimited" =>
        ret = IF Len(raw) = 1 THEN from_one_comma_delimited(raw[1]) ELSE None

\* two occurrences, each of which would decode on its own
C4_Witness ==
    /\ call = "from_comma_delimited"
    /\ raw = << <<49, 44, 57>>, <<49>> >>
    /\ from_one_comma_delimited(raw[1]) = Some(<<1, 9>>)
    /\ ret = None

-----------------------------------------------------------------------------
(* fmt_comma_delimited, one step per statement.                            *)
(*                                                                         *)
(* The sink is the fmt::Formatter's underlying writer.  A write! either is *)
(* accepted whole or fails; a failed write adds nothing to the sink.       *)
(* fmt::Error carries no data, so "Err" is the one error there is.         *)

\* the item values callers hand to the formatter
Items == {1, 19, 255}

GivenParts == SeqsUpTo(Items, MaxParts)

\* what from_one_comma_delimited returns for the modelled inputs
DecodedParts ==
    {from_one_comma_delimited(b).val :
        b \in {x \in ByteInputs : from_one_comma_delimited(x).tag = "Some"}}

\* usize arithmetic wraps modulo 2^32 or 2^64 when overflow checks are off.  The
\* model wraps modulo 2^30, the largest power TLC's integers leave room for: what
\* matters below is only that the wrapped value exceeds every index.
UsizeModulus == 2^30

\* parts.len() - 1 in wrapping usize arithmetic
wrapping_len_minus_one(n) == (n - 1) % UsizeModulus

\* if i <= last: a separator after the last item too
needs_separator_inclusive(i, l) == i <= l

\* if i < last
needs_separator(i, l) == i < l

\* the separator ", "
Separator == <<44, 32>>

sink_accept(k, text) ==
    [buf |-> k.buf \o text, writes |-> k.writes + 1, failed |-> FALSE]

sink_reject(k) ==
    [buf |-> k.buf, writes |-> k.writes + 1, failed |-> TRUE]

\* String::as_bytes: the UTF-8 encoding of a text
RECURSIVE as_bytes(_)
as_bytes(t) ==
    IF t = <<>> THEN <<>>
    ELSE LET c == Head(t)
             e == IF c < 128 THEN <<c>>
                  ELSE IF c < 2048 THEN <<192 + (c \div 64), 128 + (c % 64)>>
                  ELSE IF c < 65536
                       THEN <<224 + (c \div 4096), 128 + ((c \div 64) % 64), 128 + (c % 64)>>
                  ELSE <<240 + (c \div 262144), 128 + ((c \div 4096) % 64),
                         128 + ((c \div 64) % 64), 128 + (c % 64)>>
         IN  e \o as_bytes(Tail(t))

InitFmt ==
    /\ \/ origin = "given"   /\ parts \in GivenParts
       \/ origin = "decoded" /\ parts \in DecodedParts
    /\ fpc = "call" /\ last = 0 /\ idx = 0
    /\ sink = [buf |-> <<>>, writes |-> 0, failed |-> FALSE]
    /\ fres = "none" /\ redec = None
    /\ DecIdle /\ TmIdle

\* let last = parts.len() - 1;   (in range, or wrapping when overflow checks are off)
FmtLast ==
    /\ fpc = "call"
    /\ last' = wrapping_len_minus_one(Len(parts))
    /\ fpc' = "loop"
    /\ UNCHANGED <<origin, parts, idx, sink, fres, redec>>
    /\ UNCHANGED <<decVars, tmVars>>

\* let last = parts.len() - 1;   (overflow checks on: 0 - 1 panics)
FmtLastPanic ==
    /\ fpc = "call"
    /\ Len(parts) = 0
    /\ fpc' = "panic"
    /\ UNCHANGED <<origin, parts, last, idx, sink, fres, redec>>
    /\ UNCHANGED <<decVars, tmVars>>

\* for (i, part) in parts.iter().enumerate()
FmtLoop ==
    /\ fpc = "loop"
    /\ fpc' = IF idx < Len(parts) THEN "item" ELSE "return"
    /\ UNCHANGED <<origin, parts, last, idx, sink, fres, redec>>
    /\ UNCHANGED <<decVars, tmVars>>

\* try!(write!(fmt, "{}", part));   the sink accepts the write
FmtWriteItem ==
    /\ fpc = "item"
    /\ sink' = sink_accept(sink, display(parts[idx + 1]))
    /\ fpc' = "sep"
    /\ UNCHANGED <<origin, parts, last, idx, fres, redec>>
    /\ UNCHANGED <<decVars, tmVars>>

\* try!(write!(fmt, "{}", part));   the sink fails: try! returns the error
FmtWriteItemFails ==
    /\ fpc = "item"
    /\ sink' = sink_reject(sink)
    /\ fres' = "Err"
    /\ fpc' = "done"
    /\ UNCHANGED <<origin, parts, last, idx, redec>>
    /\ UNCHANGED <<decVars, tmVars>>

\* if i < last { try!(write!(fmt, ", ")); }   the sink accepts, or no write is due
FmtSeparator ==
    /\ fpc = "sep"
    /\ sink' = IF needs_separator(idx, last) THEN sink_accept(sink, Separator) ELSE sink
    /\ idx' = idx + 1
    /\ fpc' = "loop"
    /\ UNCHANGED <<origin, parts, last, fres, redec>>
    /\ UNCHANGED <<decVars, tmVars>>

\* if i < last { try!(write!(fmt, ", ")); }   the sink fails
FmtSeparatorFails ==
    /\ fpc = "sep"
    /\ needs_separator(idx, last)
    /\ sink' = sink_reject(sink)
    /\ fres' = "Err"
    /\ fpc' = "done"
    /\ UNCHANGED <<origin, parts, last, idx, redec>>
    /\ UNCHANGED <<decVars, tmVars>>

\* Ok(())
FmtReturn ==
    /\ fpc = "return"
    /\ fres' = "Ok"
    /\ fpc' = "done"
    /\ UNCHANGED <<origin, parts, last, idx, sink, redec>>
    /\ UNCHANGED <<decVars, tmVars>>

\* the formatted text is decoded again with from_one_comma_delimited
Redecode ==
    /\ fpc = "done"
    /\ fres = "Ok"
    /\ redec' = from_one_comma_delimited(as_bytes(sink.buf))
    /\ fpc' = "redecoded"
    /\ UNCHANGED <<origin, parts, last, idx, sink, fres>>
    /\ UNCHANGED <<decVars, tmVars>>

NextFmt ==
    \/ FmtLast
    \/ FmtLastPanic
    \/ FmtLoop
    \/ FmtWriteItem
    \/ FmtWriteItemFails
    \/ FmtSeparator
    \/ FmtSeparatorFails
    \/ FmtReturn
    \/ Redecode

SpecFmt == InitFmt /\ [][NextFmt]_vars

-----------------------------------------------------------------------------
(* Reference notions for the formatter claims *)

\* the display texts of xs joined by ", ", built from the right
RECURSIVE Joined(_)
Joined(xs) ==
    IF xs = <<>> THEN <<>>
    ELSE IF Len(xs) = 1 THEN display(xs[1])
    ELSE Joined(SubSeq(xs, 1, Len(xs) - 1)) \o <<44, 32>> \o display(xs[Len(xs)])

IsPrefix(a, b) == Len(a) <= Len(b) /\ a = SubSeq(b, 1, Len(a))

\* the call has ended: it returned, or the process aborted
FmtEnded == fpc \in {"done", "redecoded", "panic"}

-----------------------------------------------------------------------------
(* Claims about fmt_comma_delimited, checked under SpecFmt *)

\* C5: for a non-empty sequence and a sink that never fails, the text written is
\* the items' display texts in order joined by ", ", no separator before the first
\* item or after the last (n items, n-1 separators), and the call returns Ok.
C5_JoinedOutput ==
    (parts # <<>> /\ ~sink.failed) =>
        /\ fpc # "panic"
        /\ IsPrefix(sink.buf, Joined(parts))
        /\ fpc \in {"done", "redecoded"} =>
            /\ fres = "Ok"
            /\ sink.buf = Joined(parts)
            /\ sink.writes = Len(parts) + (Len(parts) - 1)

\* [1, 19, 255] is written as "1, 19, 255"
C5_Witness ==
    /\ parts = <<1, 19, 255>>
    /\ fpc = "done"
    /\ fres = "Ok"
    /\ sink = [buf |-> <<49, 44, 32, 49, 57, 44, 32, 50, 53, 53>>,
               writes |-> 5, failed |-> FALSE]

\* C6: fmt_comma_delimited never aborts the process and parts.len() - 1 never
\* leaves the range of the unsigned length, for every input, the empty one included.
C6_NoUnderflowNoAbort ==
    /\ fpc # "panic"
    /\ fpc # "call" => last = Len(parts) - 1

\* C7: with a sink that may fail, the call either performs every write and returns
\* Ok, or stops at the first failing write and returns that error; the sink holds a
\* prefix of the joined text; Err is returned only if a write failed.
C7_AllOrFirstFailure ==
    /\ IsPrefix(sink.buf, Joined(parts))
    /\ fres = "Err" => sink.failed
    /\ sink.failed => (fpc = "done" /\ fres = "Err")
    /\ FmtEnded =>
        \/ /\ fres = "Ok"
           /\ ~sink.failed
           /\ sink.buf = Joined(parts)
           /\ sink.writes = IF parts = <<>> THEN 0 ELSE Len(parts) + (Len(parts) - 1)
        \/ /\ fres = "Err"
           /\ sink.failed

\* C10: a sequence that from_one_comma_delimited produced, formatted with
\* fmt_comma_delimited and decoded again, comes back equal.
C10_RoundTrip ==
    origin = "decoded" =>
        /\ fpc # "panic"
        /\ fpc = "redecoded" => redec = Some(parts)

\* the same two statements with the aborted call left out: what holds of the
\* calls that return (these are not the claims, they locate the failure)
ReturningCallsAllOrFirstFailure ==
    fpc # "panic" => C7_AllOrFirstFailure

ReturningCallsRoundTrip ==
    fpc = "redecoded" => redec = Some(parts)

-----------------------------------------------------------------------------
(* time::strptime.  The time crate is a dependency, its source is not part *)
(* of this repository; it is modelled from the grammars the specification  *)
(* gives for the three formats and the crate's directive rules: a format   *)
(* is a sequence of literals and directives, both the input and the format *)
(* must be consumed entirely, and the Tm starts with every field zero.     *)

DayNamesShort ==
    << <<"S", "u", "n">>, <<"M", "o", "n">>, <<"T", "u", "e">>, <<"W", "e", "d">>,
       <<"T", "h", "u">>, <<"F", "r", "i">>, <<"S", "a", "t">> >>

DayNamesLong ==
    << <<"S", "u", "n", "d", "a", "y">>, <<"M", "o", "n", "d", "a", "y">>,
       <<"T", "u", "e", "s", "d", "a", "y">>, <<"W", "e", "d", "n", "e", "s", "d", "a", "y">>,
       <<"T", "h", "u", "r", "s", "d", "a", "y">>, <<"F", "r", "i", "d", "a", "y">>,
       <<"S", "a", "t", "u", "r", "d", "a", "y">> >>

MonthNamesShort ==
    << <<"J", "a", "n">>, <<"F", "e", "b">>, <<"M", "a", "r">>, <<"A", "p", "r">>,
       <<"M", "a", "y">>, <<"J", "u", "n">>, <<"J", "u", "l">>, <<"A", "u", "g">>,
       <<"S", "e", "p">>, <<"O", "c", "t">>, <<"N", "o", "v">>, <<"D", "e", "c">> >>

DigitChars == <<"0", "1", "2", "3", "4", "5", "6", "7", "8", "9">>

is_digit(ch) == \E k \in 1..10 : DigitChars[k] = ch
digit_value(ch) == (CHOOSE k \in 1..10 : DigitChars[k] = ch) - 1

empty_tm ==
    [tm_sec |-> 0, tm_min |-> 0, tm_hour |-> 0, tm_mday |-> 0, tm_mon |-> 0,
     tm_year |-> 0, tm_wday |-> 0, tm_yday |-> 0, tm_isdst |-> 0, tm_utcoff |-> 0,
     tm_nsec |-> 0]

\* a parse position: the next index to read and the Tm filled so far
At(p, tm) == [pos |-> p, tm |-> tm]

match_str(str, pos, needle) ==
    /\ pos + Len(needle) - 1 <= Len(str)
    /\ SubSeq(str, pos, pos + Len(needle) - 1) = needle

\* the index of the first name found at pos, 0 when none is
match_strs(str, pos, names) ==
    IF \E k \in 1..Len(names) : match_str(str, pos, names[k])
    THEN CHOOSE k \in 1..Len(names) :
            /\ match_str(str, pos, names[k])
            /\ \A j \in 1..(k - 1) : ~match_str(str, pos, names[j])
    ELSE 0

\* exactly n characters, digits (and blanks when ws), read as a decimal number
RECURSIVE match_digits(_, _, _, _, _)
match_digits(str, pos, n, ws, value) ==
    IF n = 0 THEN Ok([pos |-> pos, value |-> value])
    ELSE IF pos > Len(str) THEN Err
    ELSE IF is_digit(str[pos])
         THEN match_digits(str, pos + 1, n - 1, ws, value * 10 + digit_value(str[pos]))
    ELSE IF ws /\ str[pos] = " " THEN match_digits(str, pos + 1, n - 1, ws, value)
    ELSE Err

match_digits_in_range(str, pos, n, ws, min, max) ==
    LET r == match_digits(str, pos, n, ws, 0)
    IN  IF r.tag = "Ok" /\ r.val.value >= min /\ r.val.value <= max THEN r ELSE Err

parse_char(str, pos, ch) ==
    IF pos <= Len(str) /\ str[pos] = ch THEN Ok(pos + 1) ELSE Err

\* %Z: UTC and GMT are recognised; any other zone name is skipped up to and
\* including the next blank.  The offset stays 0 in both cases.
RECURSIVE skip_zone(_, _)
skip_zone(str, pos) ==
    IF pos > Len(str) THEN pos
    ELSE IF str[pos] = " " THEN pos + 1
    ELSE skip_zone(str, pos + 1)

\* the directives %c and %T stand for
Expansion(d) ==
    IF d = "%c" THEN <<"%a", " ", "%b", " ", "%e", " ", "%T", " ", "%Y">>
    ELSE IF d = "%T" THEN <<"%H", ":", "%M", ":", "%S">>
    ELSE <<d>>

IsDirective(f) == f \in {"%a", "%A", "%b", "%c", "%d", "%e", "%H", "%M", "%S", "%T",
                         "%y", "%Y", "%Z"}

\* one simple directive at pos: Ok(At(next position, updated Tm)) or Err
parse_type(str, pos, d, tm) ==
    LET num(n, ws, min, max, field, off) ==
            LET r == match_digits_in_range(str, pos, n, ws, min, max)
            IN  IF r.tag = "Ok"
                THEN Ok(At(r.val.pos, [tm EXCEPT ![field] = r.val.value - off]))
                ELSE Err
        name(names, field) ==
            LET k == match_strs(str, pos, names)
            IN  IF k > 0
                THEN Ok(At(pos + Len(names[k]), [tm EXCEPT ![field] = k - 1]))
                ELSE Err
    IN  CASE d = "%a" -> name(DayNamesShort, "tm_wday")
          [] d = "%A" -> name(DayNamesLong, "tm_wday")
          [] d = "%b" -> name(MonthNamesShort, "tm_mon")
          [] d = "%d" -> num(2, FALSE, 1, 31, "tm_mday", 0)
          [] d = "%e" -> num(2, TRUE, 1, 31, "tm_mday", 0)
          [] d = "%H" -> num(2, FALSE, 0, 23, "tm_hour", 0)
          [] d = "%M" -> num(2, FALSE, 0, 59, "tm_min", 0)
          [] d = "%S" -> num(2, FALSE, 0, 60, "tm_sec", 0)
          [] d = "%y" -> num(2, TRUE, 0, 99, "tm_year", 0)
          [] d = "%Y" -> num(4, FALSE, 0, 9999, "tm_year", 1900)
          [] d = "%Z" -> IF match_str(str, pos, <<"U", "T", "C">>)
                            \/ match_str(str, pos, <<"G", "M", "T">>)
                         THEN Ok(At(pos + 3, [tm EXCEPT !.tm_utcoff = 0]))
                         ELSE Ok(At(skip_zone(str, pos), tm))

RECURSIVE strptime_run(_, _, _, _)
strptime_run(str, pos, fmt, tm) ==
    IF fmt = <<>> THEN (IF pos = Len(str) + 1 THEN Ok(tm) ELSE Err)
    ELSE IF pos > Len(str) THEN Err
    ELSE LET f == Head(fmt)
         IN  IF ~IsDirective(f)
             THEN LET r == parse_char(str, pos, f)
                  IN  IF r.tag = "Ok" THEN strptime_run(str, r.val, Tail(fmt), tm) ELSE Err
             ELSE IF Expansion(f) # <<f>>
             THEN strptime_run(str, pos, Expansion(f) \o Tail(fmt), tm)
             ELSE LET r == parse_type(str, pos, f, tm)
                  IN  IF r.tag = "Ok"
                      THEN strptime_run(str, r.val.pos, Tail(fmt), r.val.tm)
                      ELSE Err

strptime(str, fmt) == strptime_run(str, 1, fmt, empty_tm)

-----------------------------------------------------------------------------
(* tm_from_str *)

\* "%a, %d %b %Y %T %Z"
ImfFixdateFormat ==
    <<"%a", ",", " ", "%d", " ", "%b", " ", "%Y", " ", "%T", " ", "%Z">>

\* "%A, %d-%b-%y %T %Z"
Rfc850Format ==
    <<"%A", ",", " ", "%d", "-", "%b", "-", "%y", " ", "%T", " ", "%Z">>

\* the asctime grammar spelt out with a zero-padded day (%d for %e)
AsctimeFormat_ZeroPaddedDay ==
    <<"%a", " ", "%b", " ", "%d", " ", "%T", " ", "%Y">>

\* "%c"
AsctimeFormat == <<"%c">>

\* the state of the chain: the Result so far and the strptime calls made
Chain(r, a) == [cur |-> r, attempts |-> a]

\* time::strptime(s, format), the head of the chain
first_strptime(str, name, fmt) == Chain(strptime(str, fmt), <<name>>)

\* .or(time::strptime(s, format)) misread: the next grammar is always tried and
\* its result replaces the one so far
or_else_strptime_eager(c, str, name, fmt) ==
    Chain(strptime(str, fmt), Append(c.attempts, name))

\* .or_else(|_| time::strptime(s, format)): the closure runs only on Err
or_else_strptime(c, str, name, fmt) ==
    IF c.cur.tag = "Err"
    THEN Chain(strptime(str, fmt), Append(c.attempts, name))
    ELSE c

\* the test fixture NOV_07
NOV_07 ==
    [tm_nsec |-> 0, tm_sec |-> 37, tm_min |-> 48, tm_hour |-> 8, tm_mday |-> 7,
     tm_mon |-> 10, tm_year |-> 94, tm_wday |-> 0, tm_isdst |-> 0, tm_yday |-> 0,
     tm_utcoff |-> 0]

\* "Sun, 07 Nov 1994 08:48:37 GMT"
ImfFixdateExample ==
    << "S", "u", "n", ",", " ", "0", "7", " ", "N", "o", "v", " ", "1", "9", "9",
       "4", " ", "0", "8", ":", "4", "8", ":", "3", "7", " ", "G", "M", "T" >>

\* "Sunday, 07-Nov-94 08:48:37 GMT"
Rfc850Example ==
    << "S", "u", "n", "d", "a", "y", ",", " ", "0", "7", "-", "N", "o", "v", "-",
       "9", "4", " ", "0", "8", ":", "4", "8", ":", "3", "7", " ", "G", "M", "T" >>

\* "Sun Nov  7 08:48:37 1994"
AsctimeExample ==
    << "S", "u", "n", " ", "N", "o", "v", " ", " ", "7", " ", "0", "8", ":", "4",
       "8", ":", "3", "7", " ", "1", "9", "9", "4" >>

\* "not a date"
NotADate ==
    << "n", "o", "t", " ", "a", " ", "d", "a", "t", "e" >>

\* "Sat, 31 Dec 1999 23:59:60 PST"
ImfFixdatePst ==
    << "S", "a", "t", ",", " ", "3", "1", " ", "D", "e", "c", " ", "1", "9", "9",
       "9", " ", "2", "3", ":", "5", "9", ":", "6", "0", " ", "P", "S", "T" >>

DateExamples ==
    {ImfFixdateExample, Rfc850Example, AsctimeExample, NotADate, ImfFixdatePst}

\* the characters substituted into the examples
SubstChars == {" ", ",", "-", "0", "9", "x"}

\* the examples, each of them with one character replaced, and each of their prefixes
DateInputs ==
    DateExamples
    \cup UNION {{[e EXCEPT ![k] = ch] : k \in 1..Len(e), ch \in SubstChars} :
                    e \in DateExamples}
    \cup UNION {{SubSeq(e, 1, k) : k \in 0..Len(e)} : e \in DateExamples}

InitTm ==
    /\ s \in DateInputs
    /\ tpc = "imf-fixdate" /\ cur = Err /\ attempts = <<>> /\ tres = None
    /\ DecIdle /\ FmtIdle

\* time::strptime(s, "%a, %d %b %Y %T %Z")
TmImfFixdate ==
    /\ tpc = "imf-fixdate"
    /\ LET c == first_strptime(s, "imf-fixdate", ImfFixdateFormat)
       IN  cur' = c.cur /\ attempts' = c.attempts
    /\ tpc' = "rfc-850"
    /\ UNCHANGED <<s, tres>>
    /\ UNCHANGED <<decVars, fmtVars>>

\* .or_else(|_| time::strptime(s, "%A, %d-%b-%y %T %Z"))
TmRfc850 ==
    /\ tpc = "rfc-850"
    /\ LET c == or_else_strptime(Chain(cur, attempts), s, "rfc-850", Rfc850Format)
       IN  cur' = c.cur /\ attempts' = c.attempts
    /\ tpc' = "asctime"
    /\ UNCHANGED <<s, tres>>
    /\ UNCHANGED <<decVars, fmtVars>>

\* .or_else(|_| time::strptime(s, "%c"))
TmAsctime ==
    /\ tpc = "asctime"
    /\ LET c == or_else_strptime(Chain(cur, attempts), s, "asctime", AsctimeFormat)
       IN  cur' = c.cur /\ attempts' = c.attempts
    /\ tpc' = "ok"
    /\ UNCHANGED <<s, tres>>
    /\ UNCHANGED <<decVars, fmtVars>>

\* .ok()
TmOk ==
    /\ tpc = "ok"
    /\ tres' = ok(cur)
    /\ tpc' = "done"
    /\ UNCHANGED <<s, cur, attempts>>
    /\ UNCHANGED <<decVars, fmtVars>>

NextTm ==
    \/ TmImfFixdate
    \/ TmRfc850
    \/ TmAsctime
    \/ TmOk

SpecTm == InitTm /\ [][NextTm]_vars

-----------------------------------------------------------------------------
(* Claims about tm_from_str, checked under SpecTm *)

\* the three grammars in the order tm_from_str names them
Grammars ==
    << [name |-> "imf-fixdate", fmt |-> ImfFixdateFormat],
       [name |-> "rfc-850",     fmt |-> Rfc850Format],
       [name |-> "asctime",     fmt |-> AsctimeFormat] >>

Matches(str, k) == strptime(str, Grammars[k].fmt).tag = "Ok"

\* C8: tm_from_str tries IMF-fixdate, then RFC-850, then asctime; a later grammar
\* is attempted only after every earlier one failed; the result is that of the
\* first grammar that matches; None is returned iff none of the three matches.
C8_FirstMatchingGrammar ==
    /\ Len(attempts) <= 3
    /\ \A k \in 1..Len(attempts) :
        /\ attempts[k] = Grammars[k].name
        /\ \A j \in 1..(k - 1) : ~Matches(s, j)
    /\ tpc = "done" =>
        /\ tres = None <=> \A k \in 1..3 : ~Matches(s, k)
        /\ \A k \in 1..3 :
            (Matches(s, k) /\ \A j \in 1..(k - 1) : ~Matches(s, j)) =>
                /\ tres = Some(strptime(s, Grammars[k].fmt).val)
                /\ Len(attempts) = k
        /\ (\A k \in 1..3 : ~Matches(s, k)) => Len(attempts) = 3
        /\ s = NotADate => tres = None

\* the RFC-850 example: IMF-fixdate was tried and failed, RFC-850 matched,
\* asctime was not tried
C8_Witness ==
    /\ s = Rfc850Example
    /\ tpc = "done"
    /\ attempts = <<"imf-fixdate", "rfc-850">>
    /\ tres.tag = "Some"

\* C9: the IMF-fixdate, RFC-850 and asctime spellings of 1994-11-07 08:48:37 all
\* give the one timestamp NOV_07 (month index 10, year 94, weekday 0), and every
\* timestamp tm_from_str returns has zero UTC offset and zero nanoseconds.
C9_SameInstant ==
    tpc = "done" =>
        /\ s \in {ImfFixdateExample, Rfc850Example, AsctimeExample} => tres = Some(NOV_07)
        /\ tres.tag = "Some" => (tres.val.tm_utcoff = 0 /\ tres.val.tm_nsec = 0)

\* the asctime example, reached through two failed grammars
C9_Witness ==
    /\ s = AsctimeExample
    /\ tpc = "done"
    /\ attempts = <<"imf-fixdate", "rfc-850", "asctime">>
    /\ tres = Some(NOV_07)

====
